---- MODULE Spec2Model ----
(***************************************************************************)
(* db-siriusxm: the polling loop, scrape_clean and db_insert of            *)
(* src/db-siriusxm.py over a model of the SQLite store that db_create      *)
(* provisions (tables, unique indexes, insert, update and delete           *)
(* triggers), with db_create itself at process start.                      *)
(*                                                                         *)
(* Strings are sequences of one-character strings, unix time is an        *)
(* integer number of seconds, and the store is a record of four sets of   *)
(* rows plus the AUTOINCREMENT counters of sqlite_sequence.                *)
(***************************************************************************)
EXTENDS Integers, Sequences, FiniteSets, TLC

(* ---- program constants ------------------------------------------------ *)
SLEEP_MIN == 15
SLEEP_INCREMENT == 5
SLEEP_MAX == 60
\* datetime('now', '-10 minutes'), in seconds
Window == 600

(* ---- bounds ----------------------------------------------------------- *)
\* the wall clock takes the values 0, TickLen, ..., MaxTick * TickLen
MaxTick == 2
\* most records on one scraped page
MaxBatch == 2
\* most pages served in a behaviour of Spec
MaxCycles == 2
\* the consecutive empty cycles are counted up to MaxEmptyRun
MaxEmptyRun == 10
\* most statements run on the store from outside the polling loop
MaxStatements == 1
\* the fine clock of the waiting specification takes the values 0, Pace, ...,
\* MaxPass * Pace
MaxPass == 6

(* ---- input alphabets --------------------------------------------------- *)
\* what the page can list: channel 1 under its name, channel 2 under the same
\* name, and channel 1 with its name left empty and another artist
Listings ==
  {[channel |-> 1, name |-> <<"A", " ">>, artist |-> <<"X">>, track |-> <<"T">>],
   [channel |-> 2, name |-> <<"A", " ">>, artist |-> <<"X">>, track |-> <<"T">>],
   [channel |-> 1, name |-> <<>>, artist |-> <<" ", "Y">>, track |-> <<"T">>]}

\* args.whitelist and args.blacklist: no filter, or one that drops everything
\* (2 is not whitelisted, 1 is blacklisted)
Configs ==
  {[whitelist |-> {}, blacklist |-> {}], [whitelist |-> {1}, blacklist |-> {1}]}

\* line 234: every record of a page is stamped with the time of the scrape
RawRecords(t) ==
  {[channel |-> p.channel, name |-> p.name, artist |-> p.artist, track |-> p.track,
    time |-> t] : p \in Listings}

\* the pages the source may serve at time t: 1 to MaxBatch records
Pages(t) ==
  UNION {[1..n -> RawRecords(t)] : n \in 1..MaxBatch}

\* the pages of the polling specification: nothing, one record, or two records
\* of one channel
PollPages(t) ==
  LET one == [channel |-> 1, name |-> <<"A", " ">>, artist |-> <<"X">>,
              track |-> <<"T">>, time |-> t]
      two == [channel |-> 1, name |-> <<"A", " ">>, artist |-> <<" ", "Y">>,
              track |-> <<"T">>, time |-> t]
  IN  {<<>>, <<one>>, <<two, one>>}

\* args.whitelist and args.blacklist of the cleaning specification: every pair
\* of sets of the channels 1 and 2
CleanConfigs ==
  {[whitelist |-> w, blacklist |-> b] : w \in SUBSET {1, 2}, b \in SUBSET {1, 2}}

\* the pages of the cleaning specification: up to MaxBatch records of the
\* channels 1 and 2 whose name is empty, blank or padded
CleanPages(t) ==
  LET recs == {[channel |-> c, name |-> n, artist |-> <<"X", " ">>, track |-> <<" ", "T">>,
                time |-> t] : c \in {1, 2}, n \in {<<>>, <<" ">>, <<"A", " ">>}}
  IN  UNION {[1..n -> recs] : n \in 0..MaxBatch}

\* the pages of the schema specification: two channels, an artist with two
\* tracks, a track played on both channels, a title by two artists
SchemaPages(t) ==
  LET rec(c, n, a, k) == [channel |-> c, name |-> <<n>>, artist |-> <<a>>, track |-> <<k>>,
                          time |-> t]
  IN  {<<rec(1, "A", "X", "T"), rec(2, "B", "X", "U")>>,
       <<rec(2, "B", "Y", "T"), rec(1, "A", "X", "U")>>}

\* the keys the statements run from outside the loop name
Keys == {1, 2, 3}

\* the clock advances in steps of half the dedup window
TickLen == Window \div 2

\* the fine clock advances in steps of the shortest delay
Pace == SLEEP_MIN

Min(a, b) == IF a < b THEN a ELSE b

Max(a, b) == IF a > b THEN a ELSE b

(* ---- strings ----------------------------------------------------------- *)
Whitespace == {" ", "\t", "\n", "\r"}

Digit(d) ==
  CASE d = 0 -> "0" [] d = 1 -> "1" [] d = 2 -> "2" [] d = 3 -> "3" [] d = 4 -> "4"
    [] d = 5 -> "5" [] d = 6 -> "6" [] d = 7 -> "7" [] d = 8 -> "8" [] OTHER -> "9"

RECURSIVE str(_)
str(n) ==
  IF n < 10 THEN <<Digit(n)>> ELSE str(n \div 10) \o <<Digit(n % 10)>>

RECURSIVE lstrip(_)
lstrip(s) ==
  IF s # <<>> /\ Head(s) \in Whitespace THEN lstrip(Tail(s)) ELSE s

RECURSIVE rstrip(_)
rstrip(s) ==
  IF s # <<>> /\ s[Len(s)] \in Whitespace THEN rstrip(SubSeq(s, 1, Len(s) - 1)) ELSE s

strip(s) == rstrip(lstrip(s))

(* ---- scrape_clean ------------------------------------------------------ *)
\* a filter in which the whitelist decides alone when it is given
unset_whitelist_first(c, wl, bl) ==
  IF Cardinality(wl) > 0 THEN c.channel \notin wl ELSE c.channel \in bl

\* the record is removed by the whitelist/blacklist test
unset(c, wl, bl) ==
  (Cardinality(wl) > 0 /\ c.channel \notin wl) \/ c.channel \in bl

clean_strings(c) ==
  LET named == IF c.name = <<>>
               THEN <<"C", "h", "a", "n", "n", "e", "l", " ">> \o str(c.channel)
               ELSE c.name
  IN  [channel |-> c.channel, name |-> strip(named), artist |-> strip(c.artist),
       track |-> strip(c.track), time |-> c.time]

scrape_clean(chs, wl, bl) ==
  LET kept == SelectSeq(chs, LAMBDA c : ~unset(c, wl, bl))
  IN  [i \in 1..Len(kept) |-> clean_strings(kept[i])]

(* ---- the schema --------------------------------------------------------- *)
\* the tables, indexes and triggers db_create names, in the order it creates them
SchemaObjects ==
  <<"channels", "artists", "tracks", "ix_tracks_artist_title", "tr_tracks_insert",
    "tr_artists_update_id_tracks", "tr_artists_delete_tracks", "entries",
    "ix_entries_channel_time", "tr_entries_insert_channel",
    "tr_channels_update_number_entries", "tr_channels_delete_entries",
    "tr_entries_insert_tracks", "tr_tracks_update_id_entries", "tr_tracks_delete_entries">>

\* a store file nothing was created in: schema lists the objects of
\* sqlite_master in the order of their creation
BlankDb ==
  [channels |-> {}, artists |-> {}, tracks |-> {}, entries |-> {},
   seq |-> [artists |-> 0, tracks |-> 0, entries |-> 0], schema |-> <<>>]

\* CREATE without IF NOT EXISTS: an object of that name is an error
create_or_fail(st, name) ==
  IF \E i \in 1..Len(st.db.schema) : st.db.schema[i] = name
  THEN [st EXCEPT !.ok = FALSE]
  ELSE [st EXCEPT !.db.schema = Append(@, name)]

\* CREATE TABLE / UNIQUE INDEX / TRIGGER IF NOT EXISTS name: nothing happens
\* when an object of that name exists
create_if_not_exists(st, name) ==
  IF \E i \in 1..Len(st.db.schema) : st.db.schema[i] = name
  THEN st
  ELSE [st EXCEPT !.db.schema = Append(@, name)]

\* the statements of db_create from the i-th on; a statement that raises ends it
RECURSIVE create_from(_, _)
create_from(st, i) ==
  IF i > Len(SchemaObjects) \/ ~st.ok
  THEN st
  ELSE create_from(create_if_not_exists(st, SchemaObjects[i]), i + 1)

\* db_create on store d: ok is FALSE when a statement raised. PRAGMA
\* journal_mode = MEMORY sets the connection and stores nothing.
db_create(d) == create_from([db |-> d, ok |-> TRUE], 1)

(* ---- the store ---------------------------------------------------------- *)
\* the store db_create provisions in a new file: the tables empty, with
\* sqlite_sequence at 0
EmptyDb == db_create(BlankDb).db

\* SELECT number, name FROM channels WHERE number IN (batch numbers), as a dict
select_channel_names(d, chs) ==
  LET wanted == {chs[i].channel : i \in 1..Len(chs)}
      found == {r \in d.channels : r.number \in wanted}
  IN  [n \in {r.number : r \in found} |-> (CHOOSE r \in found : r.number = n).name]

\* a call that does not look the artists up
select_artists_none(d, chs) == <<>>

\* SELECT name, _id FROM artists WHERE name IN (batch artists), as a dict
select_artists(d, chs) ==
  LET wanted == {chs[i].artist : i \in 1..Len(chs)}
      found == {r \in d.artists : r.name \in wanted}
  IN  [a \in {r.name : r \in found} |-> (CHOOSE r \in found : r.name = a).id]

\* INSERT OR REPLACE INTO channels with recursive triggers enabled: the rows
\* REPLACE deletes fire tr_channels_delete_entries
replace_channel_cascade(d, number, name) ==
  LET gone == {r \in d.channels : r.number = number \/ r.name = name}
  IN  [d EXCEPT !.channels = (@ \ gone) \cup {[number |-> number, name |-> name]},
                !.entries = {e \in @ : e.channel \notin {r.number : r \in gone}}]

\* INSERT OR REPLACE INTO channels (number, name): every row that conflicts on
\* the PRIMARY KEY number or on the UNIQUE name is deleted first; with
\* recursive_triggers off (SQLite's default, never changed by the program)
\* those deletions fire no delete trigger
replace_channel(d, number, name) ==
  LET gone == {r \in d.channels : r.number = number \/ r.name = name}
  IN  [d EXCEPT !.channels = (@ \ gone) \cup {[number |-> number, name |-> name]}]

\* AUTOINCREMENT: the next rowid is one more than the larger of the counter of
\* sqlite_sequence and the largest rowid in the table
next_id(seq, rows) ==
  LET ids == {r.id : r \in rows}
      top == IF ids = {} THEN 0 ELSE CHOOSE m \in ids : \A i \in ids : i <= m
  IN  Max(seq, top) + 1

\* artists.name is UNIQUE
artist_insert_ok(d, name) ==
  \A r \in d.artists : r.name # name

\* INSERT INTO artists (name)
insert_artist(d, name) ==
  LET id == next_id(d.seq.artists, d.artists)
  IN  [d EXCEPT !.artists = @ \cup {[id |-> id, name |-> name]},
                !.seq.artists = id]

\* SELECT _id FROM tracks WHERE artist = ? AND title = ?
select_track(d, artist_id, title) ==
  {r.id : r \in {t \in d.tracks : t.artist = artist_id /\ t.title = title}}

\* tr_tracks_insert and ix_tracks_artist_title
track_insert_ok(d, artist_id, title) ==
  /\ \E a \in d.artists : a.id = artist_id
  /\ \A t \in d.tracks : ~(t.artist = artist_id /\ t.title = title)

insert_track(d, artist_id, title) ==
  LET id == next_id(d.seq.tracks, d.tracks)
  IN  [d EXCEPT !.tracks = @ \cup {[id |-> id, artist |-> artist_id, title |-> title]},
                !.seq.tracks = id]

\* the dedup test with a half-open comparison turned closed
entry_recent_closed(d, channel_id, track_id, n) ==
  \E e \in d.entries : e.channel = channel_id /\ e.track = track_id /\ e.time >= n - Window

\* the dedup test keyed on the track alone
entry_recent_any_channel(d, channel_id, track_id, n) ==
  \E e \in d.entries : e.track = track_id /\ e.time > n - Window

\* the dedup test with the window measured the wrong way round
entry_recent_stale(d, channel_id, track_id, n) ==
  \E e \in d.entries : e.channel = channel_id /\ e.track = track_id /\ e.time < n - Window

\* SELECT track FROM entries WHERE channel = ? AND track = ?
\*   AND datetime(time,'unixepoch') > datetime('now', '-10 minutes')
entry_recent(d, channel_id, track_id, n) ==
  \E e \in d.entries : e.channel = channel_id /\ e.track = track_id /\ e.time > n - Window

\* the entry insert without the unique index on (channel, time)
entry_insert_ok_no_index(d, channel_id, track_id, t) ==
  /\ \E c \in d.channels : c.number = channel_id
  /\ \E k \in d.tracks : k.id = track_id

\* tr_entries_insert_channel, tr_entries_insert_tracks and
\* ix_entries_channel_time: the INSERT raises IntegrityError unless all hold
entry_insert_ok(d, channel_id, track_id, t) ==
  /\ \E c \in d.channels : c.number = channel_id
  /\ \E k \in d.tracks : k.id = track_id
  /\ \A e \in d.entries : ~(e.channel = channel_id /\ e.time = t)

insert_entry(d, channel_id, track_id, t) ==
  LET id == next_id(d.seq.entries, d.entries)
  IN  [d EXCEPT !.entries = @ \cup {[id |-> id, channel |-> channel_id,
                                     track |-> track_id, time |-> t]},
                !.seq.entries = id]

\* a count that also counts the rejected insert
count_after_always(count, outcome) ==
  IF outcome \in {"inserted", "rejected"} THEN count + 1 ELSE count

\* entries_inserted += 1 in the else branch of the try
count_after(count, outcome) ==
  IF outcome = "inserted" THEN count + 1 ELSE count

\* channel_name is None or channel_name != channel['name'], channel_name
\* being read from the dict names that was filled at BEGIN: the pass executes
\* INSERT OR REPLACE INTO channels
channel_stale(names, rec) ==
  rec.channel \notin DOMAIN names \/ names[rec.channel] # rec.name

\* One pass of the loop body of db_insert for record rec at wall-clock time n,
\* with the dicts names (channel_names) and arts (artists) of this call.
\* outcome: "skipped" (recent duplicate), "inserted", "rejected"
\* (IntegrityError caught) or "error" (an exception that escapes db_insert).
insert_record(d, names, arts, rec, n) ==
  LET channel_id == rec.channel
      d1 == IF channel_stale(names, rec)
            THEN replace_channel(d, channel_id, rec.name)
            ELSE d
      new_artist == rec.artist \notin DOMAIN arts
      artist_ok == ~new_artist \/ artist_insert_ok(d1, rec.artist)
      d2 == IF new_artist /\ artist_ok THEN insert_artist(d1, rec.artist) ELSE d1
      artist_id == IF new_artist /\ artist_ok
                   THEN (CHOOSE r \in d2.artists : r.name = rec.artist).id
                   ELSE IF new_artist THEN 0 ELSE arts[rec.artist]
      arts2 == IF new_artist /\ artist_ok
               THEN [a \in DOMAIN arts \cup {rec.artist} |->
                       IF a = rec.artist THEN artist_id ELSE arts[a]]
               ELSE arts
      found == select_track(d2, artist_id, rec.track)
      track_ok == found # {} \/ track_insert_ok(d2, artist_id, rec.track)
      d3 == IF found = {} /\ track_ok THEN insert_track(d2, artist_id, rec.track) ELSE d2
      track_id == IF track_ok
                  THEN CHOOSE k \in select_track(d3, artist_id, rec.track) : TRUE
                  ELSE 0
  IN  IF ~artist_ok THEN [db |-> d1, artists |-> arts, outcome |-> "error"]
      ELSE IF ~track_ok THEN [db |-> d2, artists |-> arts2, outcome |-> "error"]
      ELSE IF entry_recent(d3, channel_id, track_id, n)
           THEN [db |-> d3, artists |-> arts2, outcome |-> "skipped"]
      ELSE IF entry_insert_ok(d3, channel_id, track_id, rec.time)
           THEN [db |-> insert_entry(d3, channel_id, track_id, rec.time),
                 artists |-> arts2, outcome |-> "inserted"]
      ELSE [db |-> d3, artists |-> arts2, outcome |-> "rejected"]

\* SELECT COUNT(*) FROM entries
db_count(d) == Cardinality(d.entries)

\* a close that drops the open transaction instead of committing it
commit_rollback(dk, d, txn) == dk

\* db_conn.commit(): the open transaction, if any, becomes durable
commit(dk, d, txn) == IF txn THEN d ELSE dk

(* ---- the delete and update triggers -------------------------------------- *)
\* a delete of tracks that fires no trigger
delete_tracks_no_trigger(d, gone) ==
  [d EXCEPT !.tracks = @ \ gone]

\* DELETE FROM tracks for the rows gone: tr_tracks_delete_entries fires BEFORE
\* DELETE for each row (DELETE FROM entries WHERE track = OLD._id)
delete_tracks(d, gone) ==
  [d EXCEPT !.entries = {e \in @ : e.track \notin {t.id : t \in gone}},
            !.tracks = @ \ gone]

\* DELETE FROM tracks WHERE _id = id
delete_track(d, id) ==
  delete_tracks(d, {t \in d.tracks : t.id = id})

\* DELETE FROM artists WHERE _id = id: tr_artists_delete_tracks fires BEFORE
\* DELETE for each row (DELETE FROM tracks WHERE artist = OLD._id), and that
\* nested DELETE fires the trigger of tracks
delete_artist(d, id) ==
  LET gone == {a \in d.artists : a.id = id}
      d1 == IF gone = {} THEN d ELSE delete_tracks(d, {t \in d.tracks : t.artist = id})
  IN  [d1 EXCEPT !.artists = @ \ gone]

\* DELETE FROM channels WHERE number = number: tr_channels_delete_entries fires
\* BEFORE DELETE for each row (DELETE FROM entries WHERE channel = OLD.number)
delete_channel(d, number) ==
  LET gone == {c \in d.channels : c.number = number}
  IN  [d EXCEPT !.entries = IF gone = {} THEN @ ELSE {e \in @ : e.channel # number},
                !.channels = @ \ gone]

\* no two entries of es share a (channel, time): ix_entries_channel_time
entries_unique(es) ==
  \A e1, e2 \in es : (e1.channel = e2.channel /\ e1.time = e2.time) => e1.id = e2.id

\* UPDATE channels SET number = new WHERE number = old. The PRIMARY KEY
\* rejects a number in use; tr_channels_update_number_entries fires AFTER
\* UPDATE (UPDATE entries SET channel = NEW.number WHERE channel = OLD.number)
\* and the statement is undone when that update breaks ix_entries_channel_time
update_channel_number(d, old, new) ==
  LET rows == {c \in d.channels : c.number = old}
      moved == {IF e.channel = old THEN [e EXCEPT !.channel = new] ELSE e : e \in d.entries}
  IN  IF rows = {} \/ new = old THEN [db |-> d, ok |-> TRUE]
      ELSE IF \E c \in d.channels : c.number = new THEN [db |-> d, ok |-> FALSE]
      ELSE IF ~entries_unique(moved) THEN [db |-> d, ok |-> FALSE]
      ELSE [db |-> [d EXCEPT !.channels = (@ \ rows) \cup {[c EXCEPT !.number = new] : c \in rows},
                             !.entries = moved],
            ok |-> TRUE]

\* UPDATE artists SET _id = new WHERE _id = old. tr_artists_update_id_tracks
\* (UPDATE tracks SET artist = NEW._id WHERE channel = OLD._id) names a column
\* that tracks does not have: the statement fails when it is prepared, with
\* "no such column: channel", whatever the rows
update_artist_id(d, old, new) ==
  [db |-> d, ok |-> FALSE]

\* UPDATE tracks SET _id = new WHERE _id = old. The PRIMARY KEY rejects an id
\* in use; tr_tracks_update_id_entries fires AFTER UPDATE
\* (UPDATE entries SET track = NEW._id WHERE channel = OLD._id)
update_track_id(d, old, new) ==
  LET rows == {t \in d.tracks : t.id = old}
  IN  IF rows = {} THEN [db |-> d, ok |-> TRUE]
      ELSE IF new # old /\ \E t \in d.tracks : t.id = new THEN [db |-> d, ok |-> FALSE]
      ELSE [db |-> [d EXCEPT !.tracks = (@ \ rows) \cup {[t EXCEPT !.id = new] : t \in rows},
                             !.entries = {IF e.channel = old THEN [e EXCEPT !.track = new] ELSE e
                                            : e \in @}],
            ok |-> TRUE]

(* ---- the scheduler's delay --------------------------------------------- *)
\* the increment without the cap
sleep_after_empty_uncapped(s) == s + SLEEP_INCREMENT

\* sleep += SLEEP_INCREMENT; if sleep > SLEEP_MAX: sleep = SLEEP_MAX
sleep_after_empty(s) ==
  IF s + SLEEP_INCREMENT > SLEEP_MAX THEN SLEEP_MAX ELSE s + SLEEP_INCREMENT

\* a non-empty cycle that leaves the delay as it was
sleep_after_insert_kept(s) == s

\* sleep = SLEEP_MIN
sleep_after_insert(s) == SLEEP_MIN

(* ---- state -------------------------------------------------------------- *)
VARIABLES
  pc,                \* where the main program is
  now,               \* the wall clock, unix seconds
  whitelist,         \* args.whitelist
  blacklist,         \* args.blacklist
  channels,          \* the batch of the current cycle (raw, then cleaned)
  db,                \* the store as the connection sees it
  disk,              \* the store as committed
  in_txn,            \* BEGIN executed and not yet committed
  channel_names,     \* db_insert: dict number -> stored name
  artists,           \* db_insert: dict artist name -> id
  idx,               \* db_insert: position of the for loop in the batch, 0 outside
  entries_inserted,  \* db_insert: the count it returns
  inserted,          \* the count the cycle reports
  sleep,             \* the adaptive delay
  sleep_time,        \* time.time() taken after scrape_clean
  sleep_adj,         \* the argument of time.sleep
  total,             \* the final "Total entries" reported, -1 before
  outcomes,          \* history: what happened to each record of the batch so far
  cycles,            \* history: non-empty pages served so far
  empty_run,         \* history: consecutive empty cycles since sleep was SLEEP_MIN
  prev_sleep,        \* history: sleep before the last cycle changed it
  interrupted,       \* history: a KeyboardInterrupt has been delivered
  scraped,           \* history: the last scrape, its start and the page it got,
                     \*   in the specifications that record it
  last_op            \* history: the last statement run on the store from outside
                     \*   the polling loop

vars ==
  <<pc, now, whitelist, blacklist, channels, db, disk, in_txn, channel_names, artists,
    idx, entries_inserted, inserted, sleep, sleep_time, sleep_adj, total, outcomes,
    cycles, empty_run, prev_sleep, interrupted, scraped, last_op>>

\* the variables of the store and of a db_insert call
store_vars ==
  <<db, disk, in_txn, channel_names, artists, idx, entries_inserted, outcomes>>

\* the empty dict
NoDict == <<>>

\* no scrape recorded
NoScrape == [time |-> 0, page |-> <<>>]

\* no statement run from outside the loop
NoOp == [op |-> "none", key |-> 0, new |-> 0, ok |-> TRUE, before |-> BlankDb, count |-> 0]

\* the program's variables at the start of the process, at position at, with
\* the arguments drawn from configs and the store file holding store
InitWith(at, configs, store) ==
  /\ pc = at
  /\ now = 0
  /\ \E c \in configs : whitelist = c.whitelist /\ blacklist = c.blacklist
  /\ channels = <<>>
  /\ db = store
  /\ disk = store
  /\ in_txn = FALSE
  /\ channel_names = NoDict
  /\ artists = NoDict
  /\ idx = 0
  /\ entries_inserted = 0
  /\ inserted = 0
  /\ sleep = SLEEP_MIN
  /\ sleep_time = 0
  /\ sleep_adj = 0
  /\ total = -1
  /\ outcomes = <<>>
  /\ cycles = 0
  /\ empty_run = 0
  /\ prev_sleep = SLEEP_MIN
  /\ interrupted = FALSE
  /\ scraped = NoScrape
  /\ last_op = NoOp

\* the loop is about to start on a store db_create has provisioned
Init == InitWith("fetch", Configs, EmptyDb)

(* ---- the environment ----------------------------------------------------- *)
\* time passes; the program reads the clock in the scrape, after scrape_clean,
\* in each dedup query and before the wait, so a tick elsewhere is the same as
\* a tick just before the next of these
Tick ==
  /\ pc \in {"fetch", "clean", "wait"} \/ (pc = "record" /\ idx <= Len(channels))
  /\ now < MaxTick * TickLen
  /\ now' = now + TickLen
  /\ UNCHANGED <<pc, channels, inserted, sleep, sleep_time, sleep_adj, total, cycles,
                 empty_run, interrupted>>
  /\ UNCHANGED store_vars
  /\ UNCHANGED <<scraped, last_op, whitelist, blacklist, prev_sleep>>

(* ---- one polling cycle --------------------------------------------------- *)
\* scrape_dogstar_radio: requests.get answers with one of pages; each record
\* is stamped int(time.time()). capped bounds the pages served by MaxCycles.
\* What the history scraped records is left to the specification.
Scrape(pages, capped) ==
  /\ pc = "fetch"
  /\ \E page \in pages :
       /\ capped => cycles < MaxCycles
       /\ channels' = page
       /\ cycles' = IF capped THEN cycles + 1 ELSE cycles
  /\ pc' = "clean"
  /\ UNCHANGED <<now, inserted, sleep, sleep_time, sleep_adj, total, empty_run, interrupted>>
  /\ UNCHANGED store_vars
  /\ UNCHANGED <<last_op, whitelist, blacklist, prev_sleep>>

\* KeyboardInterrupt raised inside the try of html_get_tree: the bare except
\* takes it and returns the empty tree, so the scrape yields no record
SwallowInterrupt ==
  /\ pc = "fetch"
  /\ channels' = <<>>
  /\ interrupted' = TRUE
  /\ pc' = "clean"
  /\ UNCHANGED <<now, inserted, sleep, sleep_time, sleep_adj, total, cycles, empty_run>>
  /\ UNCHANGED store_vars
  /\ UNCHANGED <<scraped, last_op, whitelist, blacklist, prev_sleep>>

\* channels = scrape_clean(channels); sleep_time = time.time()
Clean ==
  /\ pc = "clean"
  /\ channels' = scrape_clean(channels, whitelist, blacklist)
  /\ sleep_time' = now
  /\ pc' = "persist"
  /\ UNCHANGED <<now, inserted, sleep, sleep_adj, total, cycles, empty_run, interrupted>>
  /\ UNCHANGED store_vars
  /\ UNCHANGED <<scraped, last_op, whitelist, blacklist, prev_sleep>>

\* db_insert is entered: BEGIN and the two SELECTs that fill the dicts
DbBegin ==
  /\ pc = "persist"
  /\ Len(channels) > 0
  /\ inserted' = 0
  /\ entries_inserted' = 0
  /\ in_txn' = TRUE
  /\ channel_names' = select_channel_names(db, channels)
  /\ artists' = select_artists(db, channels)
  /\ idx' = 1
  /\ outcomes' = <<>>
  /\ pc' = "record"
  /\ UNCHANGED <<now, channels, db, disk, sleep, sleep_time, sleep_adj, total, cycles,
                 empty_run, interrupted>>
  /\ UNCHANGED <<scraped, last_op, whitelist, blacklist, prev_sleep>>

\* one pass of the for loop of db_insert
InsertRecord ==
  /\ pc = "record"
  /\ idx <= Len(channels)
  /\ LET r == insert_record(db, channel_names, artists, channels[idx], now)
     IN  /\ db' = r.db
         /\ artists' = r.artists
         /\ outcomes' = Append(outcomes, r.outcome)
         /\ entries_inserted' = count_after(entries_inserted, r.outcome)
         /\ pc' = IF r.outcome = "error" THEN "error" ELSE "record"
  /\ idx' = idx + 1
  /\ UNCHANGED <<now, channels, disk, in_txn, channel_names, inserted, sleep, sleep_time,
                 sleep_adj, total, cycles, empty_run, interrupted>>
  /\ UNCHANGED <<scraped, last_op, whitelist, blacklist, prev_sleep>>

\* COMMIT, return entries_inserted; back in the loop: sleep = SLEEP_MIN
DbCommit ==
  /\ pc = "record"
  /\ idx > Len(channels)
  /\ disk' = db
  /\ in_txn' = FALSE
  /\ inserted' = entries_inserted
  /\ channel_names' = NoDict
  /\ artists' = NoDict
  /\ idx' = 0
  /\ entries_inserted' = 0
  /\ sleep' = sleep_after_insert(sleep)
  /\ prev_sleep' = sleep
  /\ empty_run' = 0
  /\ pc' = "wait"
  /\ UNCHANGED <<now, channels, db, sleep_time, sleep_adj, total, outcomes, cycles, interrupted>>
  /\ UNCHANGED <<scraped, last_op, whitelist, blacklist>>

\* the else branch: nothing scraped, back off
EmptyCycle ==
  /\ pc = "persist"
  /\ Len(channels) = 0
  /\ inserted' = 0
  /\ sleep' = sleep_after_empty(sleep)
  /\ prev_sleep' = sleep
  /\ empty_run' = Min(empty_run + 1, MaxEmptyRun)
  /\ outcomes' = <<>>
  /\ pc' = "wait"
  /\ UNCHANGED <<now, channels, db, disk, in_txn, channel_names, artists, idx,
                 entries_inserted, sleep_time, sleep_adj, total, cycles, interrupted>>
  /\ UNCHANGED <<scraped, last_op, whitelist, blacklist>>

\* sleep_adj = int(sleep - (time.time() - sleep_time)); time.sleep when positive
Wait ==
  /\ pc = "wait"
  /\ LET adj == sleep - (now - sleep_time)
     IN  IF adj > 0
         THEN /\ sleep_adj' = adj
              /\ pc' = "sleeping"
              /\ UNCHANGED <<channels, outcomes>>
         ELSE /\ sleep_adj' = 0
              /\ pc' = "fetch"
              /\ channels' = <<>>
              /\ outcomes' = <<>>
  /\ UNCHANGED <<now, db, disk, in_txn, channel_names, artists, idx, entries_inserted,
                 inserted, sleep, sleep_time, total, cycles, empty_run, interrupted>>
  /\ UNCHANGED <<scraped, last_op, whitelist, blacklist, prev_sleep>>

\* time.sleep returns; the next iteration starts with channels = []
Wake ==
  /\ pc = "sleeping"
  /\ sleep_adj' = 0
  /\ channels' = <<>>
  /\ outcomes' = <<>>
  /\ pc' = "fetch"
  /\ UNCHANGED <<now, db, disk, in_txn, channel_names, artists, idx, entries_inserted,
                 inserted, sleep, sleep_time, total, cycles, empty_run, interrupted>>
  /\ UNCHANGED <<scraped, last_op, whitelist, blacklist, prev_sleep>>

\* KeyboardInterrupt raised anywhere in the loop body outside html_get_tree's
\* try: except KeyboardInterrupt: break
Interrupt ==
  /\ pc \in {"clean", "persist", "record", "wait", "sleeping"}
  /\ interrupted' = TRUE
  /\ pc' = "close"
  /\ UNCHANGED <<now, channels, inserted, sleep, sleep_time, sleep_adj, total, cycles,
                 empty_run>>
  /\ UNCHANGED store_vars
  /\ UNCHANGED <<scraped, last_op, whitelist, blacklist, prev_sleep>>

\* after the loop: report db_count, db_conn.commit(), db_conn.close()
Close ==
  /\ pc = "close"
  /\ total' = db_count(db)
  /\ disk' = commit(disk, db, in_txn)
  /\ in_txn' = FALSE
  /\ pc' = "done"
  /\ UNCHANGED <<now, channels, db, channel_names, artists, idx, entries_inserted, inserted,
                 sleep, sleep_time, sleep_adj, outcomes, cycles, empty_run, interrupted>>
  /\ UNCHANGED <<scraped, last_op, whitelist, blacklist, prev_sleep>>

(* ---- process start and statements from outside the loop ------------------- *)
\* the state of the program's variables at process start
Fresh ==
  /\ channels' = <<>>
  /\ in_txn' = FALSE
  /\ channel_names' = NoDict
  /\ artists' = NoDict
  /\ idx' = 0
  /\ entries_inserted' = 0
  /\ inserted' = 0
  /\ sleep_adj' = 0
  /\ total' = -1
  /\ outcomes' = <<>>
  /\ empty_run' = 0
  /\ prev_sleep' = SLEEP_MIN
  /\ interrupted' = FALSE

\* the process is started again on the store file the last run left:
\* sql.connect sees what was committed
Relaunch ==
  /\ pc = "done"
  /\ pc' = "start"
  /\ db' = disk
  /\ Fresh
  /\ UNCHANGED <<now, disk, sleep, sleep_time, cycles, scraped, last_op, whitelist, blacklist>>

\* db_create(db_curs), the first count, sleep = SLEEP_MIN, sleep_time = time.time()
Start ==
  /\ pc = "start"
  /\ LET r == db_create(db)
     IN  /\ db' = r.db
         /\ disk' = r.db
         /\ pc' = IF r.ok THEN "fetch" ELSE "crashed"
         /\ last_op' = [op |-> "db_create", key |-> 0, new |-> 0, ok |-> r.ok, before |-> db,
                         count |-> last_op.count]
  /\ sleep' = SLEEP_MIN
  /\ sleep_time' = now
  /\ Fresh
  /\ UNCHANGED <<now, cycles, scraped, whitelist, blacklist>>

\* a statement run on the store between two cycles, in autocommit: r is its
\* result
Statement(op, key, new, r) ==
  /\ pc = "fetch"
  /\ last_op.count < MaxStatements
  /\ db' = r.db
  /\ disk' = r.db
  /\ last_op' = [op |-> op, key |-> key, new |-> new, ok |-> r.ok, before |-> db,
                 count |-> last_op.count + 1]
  /\ UNCHANGED <<pc, now, channels, in_txn, channel_names, artists, idx, entries_inserted,
                 inserted, sleep, sleep_time, sleep_adj, total, outcomes, cycles, empty_run,
                 prev_sleep, interrupted, scraped, whitelist, blacklist>>

DeleteArtist ==
  \E k \in Keys : Statement("delete_artist", k, k, [db |-> delete_artist(db, k), ok |-> TRUE])

DeleteTrack ==
  \E k \in Keys : Statement("delete_track", k, k, [db |-> delete_track(db, k), ok |-> TRUE])

DeleteChannel ==
  \E k \in Keys : Statement("delete_channel", k, k, [db |-> delete_channel(db, k), ok |-> TRUE])

UpdateChannelNumber ==
  \E k, n \in Keys : Statement("update_channel_number", k, n, update_channel_number(db, k, n))

UpdateArtistId ==
  \E k, n \in Keys : Statement("update_artist_id", k, n, update_artist_id(db, k, n))

UpdateTrackId ==
  \E k, n \in Keys : Statement("update_track_id", k, n, update_track_id(db, k, n))

(* ---- specifications ------------------------------------------------------ *)
Fetch == Scrape(Pages(now), TRUE) /\ UNCHANGED scraped

\* the steps of one cycle after the fetch
Cycle ==
  \/ Clean
  \/ DbBegin
  \/ InsertRecord
  \/ DbCommit
  \/ EmptyCycle
  \/ Wait
  \/ Wake

Next ==
  \/ Fetch
  \/ Cycle
  \/ Tick

\* the program while it is not interrupted, over a source that serves MaxCycles
\* pages of 1 to MaxBatch records
Spec == Init /\ [][Next]_vars

Poll == Scrape(PollPages(now), FALSE) /\ UNCHANGED scraped

PollNext ==
  \/ Poll
  \/ SwallowInterrupt
  \/ Cycle
  \/ Interrupt
  \/ Close
  \/ Tick

\* the program with interrupts, over a source that serves nothing, one record
\* or two, with no bound on the number of cycles
PollSpec == Init /\ [][PollNext]_vars

\* the same, where the interpreter keeps running the program: a step of the
\* program that can be taken is eventually taken
FairPollSpec == PollSpec /\ WF_vars(Poll \/ Cycle \/ Close)

\* a store file nothing was created in, and the process about to start
SchemaInit == InitWith("start", Configs, BlankDb)

SchemaFetch == Scrape(SchemaPages(now), TRUE) /\ UNCHANGED scraped

\* the source is polled until the first statement is run on the store
TriggerFetch == SchemaFetch /\ last_op.count = 0

TriggerNext ==
  \/ TriggerFetch
  \/ Cycle
  \/ Tick
  \/ DeleteArtist
  \/ DeleteTrack
  \/ DeleteChannel
  \/ UpdateChannelNumber
  \/ UpdateArtistId
  \/ UpdateTrackId

\* the program over a source that serves up to MaxCycles pages, and then up
\* to MaxStatements statements run on the store it has filled
TriggerSpec == Init /\ [][TriggerNext]_vars

StartNext ==
  \/ Start
  \/ SchemaFetch
  \/ Cycle
  \/ Interrupt
  \/ Close
  \/ Relaunch
  \/ Tick

\* the fetch starts: the time of the cycle's start is recorded
WaitFetch ==
  /\ Scrape(PollPages(now), FALSE)
  /\ scraped' = [time |-> now, page |-> <<>>]

\* time passes while the page is fetched (before sleep_time is taken), while
\* the batch is processed (before the wait is computed) or between two cycles
Pass ==
  /\ pc \in {"fetch", "clean", "wait"}
  /\ now + Pace <= MaxPass * Pace
  /\ now' = now + Pace
  /\ UNCHANGED <<pc, channels, inserted, sleep, sleep_time, sleep_adj, total, cycles,
                 empty_run, interrupted>>
  /\ UNCHANGED store_vars
  /\ UNCHANGED <<scraped, last_op, whitelist, blacklist, prev_sleep>>

WaitNext ==
  \/ WaitFetch
  \/ Cycle
  \/ Pass

\* the polling loop under a clock that shows how long the fetch and the
\* processing of each cycle took
WaitSpec == Init /\ [][WaitNext]_vars

CleanInit == InitWith("fetch", CleanConfigs, EmptyDb)

CleanFetch ==
  /\ Scrape(CleanPages(now), FALSE)
  /\ scraped' = [time |-> now, page |-> channels']

\* scrape_clean applied once more, to the batch it has cleaned
Reclean ==
  /\ pc = "persist"
  /\ channels' = scrape_clean(channels, whitelist, blacklist)
  /\ pc' = "fetch"
  /\ UNCHANGED <<now, inserted, sleep, sleep_time, sleep_adj, total, cycles, empty_run,
                 interrupted>>
  /\ UNCHANGED store_vars
  /\ UNCHANGED <<scraped, last_op, whitelist, blacklist, prev_sleep>>

CleanNext ==
  \/ CleanFetch
  \/ Clean
  \/ Reclean

\* scrape_clean over every page of CleanPages under every configuration of
\* CleanConfigs, applied to the page and then to its own result
CleanSpec == CleanInit /\ [][CleanNext]_vars

\* the process started on a new store file, interrupted and started again on
\* the file it left, over a source that serves MaxCycles pages
StartSpec == SchemaInit /\ [][StartNext]_vars

(* ---- properties ----------------------------------------------------------- *)
\* the for loop of db_insert is at a record
AtRecord == pc = "record" /\ idx <= Len(channels)

\* this step is one pass of the for loop, over channels[idx]
RecordStep == AtRecord /\ idx' = idx + 1

\* db_insert is about to return
AtReturn == pc = "record" /\ idx > Len(channels)

\* the entries of store d for the (channel, track) pair of record rec, the
\* track being the one with rec's title by the artist with rec's name
PairEntries(d, rec) ==
  {e \in d.entries :
     /\ e.channel = rec.channel
     /\ \E t \in d.tracks, a \in d.artists :
          t.id = e.track /\ t.title = rec.track /\ a.id = t.artist /\ a.name = rec.artist}

\* the entries of PairEntries(d, rec) within the 10 minutes before n
InWindow(d, rec, n) ==
  {e \in PairEntries(d, rec) : e.time > n - Window /\ e.time <= n}

\* every entry of rec's pair is 10 minutes old or older at n
AllStale(d, rec, n) ==
  \A e \in PairEntries(d, rec) : e.time <= n - Window

\* the entry insert for rec would be rejected: store d holds an entry with its
\* (channel, timestamp), or store after holds no row for its channel
Rejected(d, after, rec) ==
  \/ \E e \in d.entries : e.channel = rec.channel /\ e.time = rec.time
  \/ \A c \in after.channels : c.number # rec.channel

\* C1: a record whose (channel, track) pair has a stored entry within the 10
\* minutes before now is skipped: no entry is appended, the count stays, and
\* exactly one entry of the pair lies in that window afterwards.
C1_DedupSkipsRecent ==
  [][(RecordStep /\ InWindow(db, channels[idx], now) # {})
       => /\ db'.entries = db.entries
          /\ entries_inserted' = entries_inserted
          /\ Cardinality(InWindow(db', channels[idx], now)) = 1]_vars

\* a record was skipped for an entry of its pair stamped at another time than
\* the record itself
C1_Witness ==
  /\ pc = "record"
  /\ idx > 1
  /\ outcomes[idx - 1] = "skipped"
  /\ \E e \in InWindow(db, channels[idx - 1], now) : e.time # channels[idx - 1].time

\* C2 as claimed: a record whose pair has stored entries, all 10 minutes old
\* or older, is appended as a further entry of the pair and counted.
C2_StaleAlwaysAppended ==
  [][(RecordStep /\ PairEntries(db, channels[idx]) # {} /\ AllStale(db, channels[idx], now))
       => /\ Cardinality(PairEntries(db', channels[idx]))
               = Cardinality(PairEntries(db, channels[idx])) + 1
          /\ entries_inserted' = entries_inserted + 1]_vars

\* C2 as amended: such a record passes the dedup check; it is appended and
\* counted unless its insert is rejected (an entry with its (channel, timestamp)
\* is stored, or its channel row is missing), and then it is skipped.
C2_StaleAppendedUnlessRejected ==
  [][(RecordStep /\ PairEntries(db, channels[idx]) # {} /\ AllStale(db, channels[idx], now))
       => IF Rejected(db, db', channels[idx])
          THEN /\ db'.entries = db.entries
               /\ entries_inserted' = entries_inserted
          ELSE /\ \E e \in PairEntries(db', channels[idx]) :
                    /\ e.time = channels[idx].time
                    /\ e \notin db.entries
                    /\ db'.entries = db.entries \cup {e}
               /\ entries_inserted' = entries_inserted + 1]_vars

\* a record has just been appended as a second entry of its pair
C2_Witness ==
  /\ pc = "record"
  /\ idx > 1
  /\ outcomes[idx - 1] = "inserted"
  /\ Cardinality(PairEntries(db, channels[idx - 1])) >= 2

\* C3: every entry references a stored channel and a stored track, and every
\* track references a stored artist.
C3_NoOrphans ==
  /\ \A e \in db.entries :
       /\ \E c \in db.channels : c.number = e.channel
       /\ \E t \in db.tracks : t.id = e.track
  /\ \A t \in db.tracks : \E a \in db.artists : a.id = t.artist

\* C4: no two channels share a number or a name, no two artists a name, no
\* two tracks an (artist, title), no two entries a (channel, timestamp).
C4_Uniqueness ==
  /\ \A c1, c2 \in db.channels : (c1.number = c2.number \/ c1.name = c2.name) => c1 = c2
  /\ \A a1, a2 \in db.artists : a1.name = a2.name => a1 = a2
  /\ \A t1, t2 \in db.tracks : (t1.artist = t2.artist /\ t1.title = t2.title) => t1 = t2
  /\ \A e1, e2 \in db.entries : (e1.channel = e2.channel /\ e1.time = e2.time) => e1 = e2

\* an insert was refused by the (channel, time) index while the store holds
\* two channels, two artists and two tracks
C4_Witness ==
  /\ pc = "record"
  /\ idx > 1
  /\ outcomes[idx - 1] = "rejected"
  /\ \E e \in db.entries :
       e.channel = channels[idx - 1].channel /\ e.time = channels[idx - 1].time
  /\ Cardinality(db.channels) = 2
  /\ Cardinality(db.artists) = 2
  /\ Cardinality(db.tracks) = 2

\* C5: the count db_insert returns is the number of entries after the call
\* minus the number before it (disk is the store as it was at BEGIN).
C5_ReturnedCount ==
  AtReturn => entries_inserted = db_count(db) - db_count(disk)

\* db_insert returns 1 for a batch of two records over a store with entries
C5_Witness ==
  /\ AtReturn
  /\ Len(channels) = 2
  /\ entries_inserted = 1
  /\ db_count(disk) > 0

\* C6: after N consecutive empty cycles from SLEEP_MIN the delay is
\* min(SLEEP_MIN + N * SLEEP_INCREMENT, SLEEP_MAX), and a non-empty cycle
\* (N back to 0) puts it at SLEEP_MIN, whatever it appended.
C6_Backoff ==
  sleep = Min(SLEEP_MIN + empty_run * SLEEP_INCREMENT, SLEEP_MAX)

\* a non-empty cycle that appended nothing has reset the delay from SLEEP_MAX
C6_Witness ==
  /\ pc = "wait"
  /\ Len(channels) > 0
  /\ inserted = 0
  /\ prev_sleep = SLEEP_MAX
  /\ sleep = SLEEP_MIN

C8_InterruptEndsLoop ==
  interrupted ~> (pc = "done")

C10_RejectedOnlySkipped ==
  /\ [][(RecordStep /\ AllStale(db, channels[idx], now) /\ Rejected(db, db', channels[idx]))
          => /\ db'.entries = db.entries
             /\ entries_inserted' = entries_inserted
             /\ pc' = "record"
             /\ in_txn']_vars
  /\ []((pc = "wait" /\ Len(channels) > 0)
          => /\ Len(outcomes) = Len(channels)
             /\ ~in_txn
             /\ disk = db)

\* a batch was committed whose first record was rejected and whose second
\* record was appended
C10_Witness ==
  /\ pc = "wait"
  /\ outcomes = <<"rejected", "inserted">>
  /\ inserted = 1
  /\ disk = db

\* the tracks of store d by the artist with id a
TracksOf(d, a) == {t \in d.tracks : t.artist = a}

\* the entries of store d that reference a track of the artist with id a
EntriesOfArtist(d, a) ==
  {e \in d.entries : \E t \in TracksOf(d, a) : t.id = e.track}

\* C11: when an Artist row is deleted, every Track of that artist and every
\* Entry that references one of those Tracks is gone with it.
C11_ArtistDeleteCascades ==
  [][\A a \in db.artists :
       (\A b \in db'.artists : b.id # a.id)
         => /\ TracksOf(db', a.id) = {}
            /\ \A t \in TracksOf(db, a.id) : \A u \in db'.tracks : u.id # t.id
            /\ \A e \in EntriesOfArtist(db, a.id) : \A f \in db'.entries : f.id # e.id]_vars

\* an artist with two tracks and three entries was deleted, and the entry of
\* another artist's track is still stored
C11_Witness ==
  /\ last_op.op = "delete_artist"
  /\ \E a \in last_op.before.artists : a.id = last_op.key
  /\ \A a \in db.artists : a.id # last_op.key
  /\ Cardinality(TracksOf(last_op.before, last_op.key)) = 2
  /\ Cardinality(EntriesOfArtist(last_op.before, last_op.key)) = 3
  /\ TracksOf(db, last_op.key) = {}
  /\ Cardinality(db.entries) = 1

\* rows with every reference to old in column field turned into new
Repointed(rows, field, old, new) ==
  {IF r[field] = old THEN [r EXCEPT ![field] = new] ELSE r : r \in rows}

\* C12: when a statement changes the key of a referenced row (a Channel's
\* number, an Artist's id, a Track's id), exactly the rows that referenced the
\* old key are re-pointed to the new key and no other row is changed.
C12_KeyChangeRepoints ==
  [][(pc = "fetch" /\ pc' = "fetch")
       => /\ \A c \in db.channels, c2 \in db'.channels :
               (c2.name = c.name /\ c2.number # c.number)
                 => /\ db'.entries = Repointed(db.entries, "channel", c.number, c2.number)
                    /\ db'.tracks = db.tracks
                    /\ db'.artists = db.artists
          /\ \A a \in db.artists, a2 \in db'.artists :
               (a2.name = a.name /\ a2.id # a.id)
                 => /\ db'.tracks = Repointed(db.tracks, "artist", a.id, a2.id)
                    /\ db'.entries = db.entries
                    /\ db'.channels = db.channels
          /\ \A t \in db.tracks, t2 \in db'.tracks :
               (t2.artist = t.artist /\ t2.title = t.title /\ t2.id # t.id)
                 => /\ db'.entries = Repointed(db.entries, "track", t.id, t2.id)
                    /\ db'.artists = db.artists
                    /\ db'.channels = db.channels]_vars

\* the record passes the whitelist/blacklist filter as the claim words it
Kept(c) ==
  (whitelist = {} \/ c.channel \in whitelist) /\ c.channel \notin blacklist

\* this step is the call of scrape_clean on the scraped page
CleanStep == pc = "clean" /\ pc' = "persist"

\* C13: scrape_clean keeps a record if and only if (the whitelist is empty or
\* holds its channel) and the blacklist does not hold its channel; a channel
\* of the blacklist is dropped also when the whitelist holds it.
C13_FilterRule ==
  [][CleanStep
       => LET kept == SelectSeq(channels, Kept)
          IN  /\ Len(channels') = Len(kept)
              /\ \A i \in 1..Len(kept) :
                   /\ channels'[i].channel = kept[i].channel
                   /\ channels'[i].time = kept[i].time
              /\ \A i \in 1..Len(channels') : channels'[i].channel \notin blacklist]_vars

\* a page was cleaned under a configuration that lists one channel in both
\* sets: its record is gone and the record of the other channel is kept
C13_Witness ==
  /\ pc = "persist"
  /\ Len(scraped.page) = 2
  /\ Len(channels) = 1
  /\ \E i \in 1..2 : scraped.page[i].channel \in whitelist \cap blacklist
  /\ channels[1].channel \in whitelist \ blacklist

\* C14: running scrape_clean on the batch it has cleaned returns the same
\* records with the same field values.
C14_CleanTwiceSame ==
  [][(pc = "persist" /\ pc' = "fetch") => channels' = channels]_vars

\* C15: db_create on a store it has provisioned, whatever rows the store
\* holds, raises nothing, leaves the schema and every row as they were, and no
\* table, index or trigger is ever listed twice.
C15_CreateIdempotent ==
  /\ [][(pc = "start" /\ db.schema = SchemaObjects)
          => (pc' = "fetch" /\ db' = db /\ disk' = disk)]_vars
  /\ [](\A i, j \in 1..Len(db.schema) : db.schema[i] = db.schema[j] => i = j)
  /\ [](pc # "crashed")

\* the process was started again on a provisioned store that holds entries,
\* and db_create has run on it
C15_Witness ==
  /\ pc = "fetch"
  /\ last_op.op = "db_create"
  /\ last_op.ok
  /\ last_op.before.schema = SchemaObjects
  /\ Cardinality(last_op.before.entries) >= 2
  /\ db = last_op.before

\* C16: the wait of a cycle is max(0, sleep - elapsed), elapsed counted from
\* the start of the cycle before the fetch, so that fetch, processing and wait
\* add up to sleep whenever fetch and processing took no longer than sleep.
C16_WaitFromCycleStart ==
  [][(pc = "wait" /\ pc' # "wait")
       => LET elapsed == now - scraped.time
          IN  /\ sleep_adj' = Max(0, sleep - elapsed)
              /\ elapsed <= sleep => elapsed + sleep_adj' = sleep]_vars

\* the batch has been committed and the cycle is about to wait
Committed == pc = "wait" /\ Len(channels) > 0

\* C17: after db_insert has committed a batch, every channel number of the
\* batch has a stored Channel row whose name is the name of the last record
\* of the batch with that number.
C17_ChannelNameIsLast ==
  Committed
    => \A i \in 1..Len(channels) :
         (\A j \in (i + 1)..Len(channels) : channels[j].channel # channels[i].channel)
           => \E c \in disk.channels :
                c.number = channels[i].channel /\ c.name = channels[i].name

\* C18: within one db_insert call a record whose channel number occurred
\* earlier in the batch writes no Channel row, and a record whose artist name
\* occurred earlier in the batch creates no Artist row.
C18_ResolvedOnce ==
  [][RecordStep
       => /\ (\E j \in 1..(idx - 1) : channels[j].channel = channels[idx].channel)
               => (~channel_stale(channel_names, channels[idx]) /\ db'.channels = db.channels)
          /\ (\E j \in 1..(idx - 1) : channels[j].artist = channels[idx].artist)
               => db'.artists = db.artists]_vars

\* C19: db_insert only adds entries: every Entry row stored before a step of
\* the program is stored after it, with its channel, track and timestamp.
C19_EntriesOnlyAdded ==
  [][\A e \in db.entries : e \in db'.entries]_vars

\* db_insert is about to return from a batch that gave a new name to a
\* channel with stored entries: the row has the new name and every entry
\* stored at BEGIN (disk) is still stored
C19_Witness ==
  /\ AtReturn
  /\ \E c \in disk.channels, c2 \in db.channels :
       /\ c2.number = c.number
       /\ c2.name # c.name
       /\ \E i \in 1..Len(channels) : channels[i].channel = c.number /\ channels[i].name = c2.name
       /\ \E e \in disk.entries : e.channel = c.number
  /\ disk.entries \subseteq db.entries

\* C20: no write of db_insert raises out of the call (no pass of its loop
\* ends in an error), a transaction is open only while the call runs, so BEGIN
\* is never executed inside one, and the call's transaction ends only by its
\* COMMIT, with every record of the batch processed.
C20_ReachesCommit ==
  /\ [](pc # "error")
  /\ [](in_txn <=> pc = "record")
  /\ [][(in_txn /\ ~in_txn')
          => (Len(outcomes) = Len(channels) /\ disk' = db /\ pc' = "wait")]_vars

\* the second batch of a behaviour, of two records, has been committed: the
\* store holds two artists, two tracks and at least three entries
C20_Witness ==
  /\ Committed
  /\ ~in_txn
  /\ disk = db
  /\ cycles = 2
  /\ Len(channels) = 2
  /\ Len(outcomes) = 2
  /\ Cardinality(db.artists) = 2
  /\ Cardinality(db.tracks) = 2
  /\ db_count(db) >= 3

====
